---- MODULE Spec2Model ----
(***************************************************************************)
(* Aimtrainer: weapon ballistics, target state machine, shot resolution    *)
(* and session statistics, modelled from src/weapon.js, src/target.js,     *)
(* src/game.js and src/input.js.                                           *)
(*                                                                         *)
(* Units (JavaScript numbers are modelled in exact fixed point):           *)
(*   time, timestamps, dt        milliseconds                              *)
(*   recoil.current, spread      1/100 pixel                               *)
(*   recoil.multiplier           1/100                                     *)
(*   fallAngle                   1/1000 degree                             *)
(*   fallVel                     degree / second                           *)
(*   impactFlash                 1/1000                                    *)
(*   worldX, lookX, lookY        1/10000 world unit                        *)
(*   worldY                      1/1000 world unit                         *)
(*   distance                    1/100                                     *)
(*   screen coordinates, radii   1/10 pixel                                *)
(***************************************************************************)
EXTENDS Integers, Sequences, FiniteSets, TLC

VARIABLES
    now,            \* performance.now(), milliseconds
    weapon,         \* game.weapon
    targets,        \* game.targets, a sequence of Target objects
    look,           \* game.camera.lookX / lookY
    stats,          \* game.stats
    game,           \* the Game object's mode, timer and frame clock
    input,          \* the InputHandler: pointer lock, canFire, pending timeouts
    calls,          \* history: the recordShot calls since the last _blankStats
    hist,           \* history: hits credited per target, last accepted shot
    ev              \* history: the last call, its inputs and its result; in
                    \* Spec the last fire input, cleared by every other event

vars == <<now, weapon, targets, look, stats, game, input, calls, hist, ev>>

Max(a, b) == IF a >= b THEN a ELSE b

Min(a, b) == IF a <= b THEN a ELSE b

(***************************************************************************)
(* GAME_CONFIG.WEAPON (src/config.js)                                      *)
(***************************************************************************)
FIRE_RATE_MS == 150

RECOIL_KICK == 15

RECOIL_MAX == 80

RECOIL_RECOVERY == 60

SPREAD_BASE == 0

SPREAD_PER_SHOT == 8

SPREAD_MAX == 40

SPREAD_RECOVERY == 25

WINDOW_MS == 500

\* 0.15, in hundredths
MULTIPLIER_INC == 15

\* 2.0, in hundredths
MULTIPLIER_MAX == 200

(***************************************************************************)
(* Bounds of the model                                                     *)
(***************************************************************************)
\* the clock stops at MaxNow quanta of TimeStep milliseconds
MaxNow == 12

\* fire() is not called once _recentShots holds MaxShots timestamps
MaxShots == 9

TimeStep == 5 * 10

ClockEnd == MaxNow * TimeStep

\* the clock readings of two successive calls are Steps apart
Steps == {TimeStep, 5 * TimeStep}

\* the frame deltas handed to Weapon.update (dt >= 0), in milliseconds
Dts == {0, TimeStep, 2 * TimeStep}

(***************************************************************************)
(* Weapon (src/weapon.js)                                                  *)
(***************************************************************************)
NewWeapon ==
    [recoil |-> 0, multiplier |-> 100, spread |-> SPREAD_BASE * 100,
     lastShotMs |-> 0, recentShots |-> <<>>]

\* an update that prunes and leaves the multiplier as it is
WeaponUpdateKeepsMultiplier(w, dt, t) ==
    LET InWindow(x) == t - x < WINDOW_MS
    IN  [w EXCEPT
           !.recoil = Max(0, @ - (RECOIL_RECOVERY * dt) \div 10),
           !.spread = Max(SPREAD_BASE * 100, @ - (SPREAD_RECOVERY * dt) \div 10),
           !.recentShots = SelectSeq(w.recentShots, InWindow)]

\* Weapon.update(dt), performance.now() = t
WeaponUpdate(w, dt, t) ==
    LET InWindow(x) == t - x < WINDOW_MS
        shots == SelectSeq(w.recentShots, InWindow)
    IN  [w EXCEPT
           !.recoil = Max(0, @ - (RECOIL_RECOVERY * dt) \div 10),
           !.spread = Max(SPREAD_BASE * 100, @ - (SPREAD_RECOVERY * dt) \div 10),
           !.recentShots = shots,
           !.multiplier = IF Len(shots) <= 2 THEN 100 ELSE @]

\* fire() with the clamp of recoil.current to RECOIL.MAX left out
WeaponFireUnclamped(w, t) ==
    LET shots == Append(w.recentShots, t)
        mult  == IF Len(shots) > 2
                 THEN Min(100 + (Len(shots) - 2) * MULTIPLIER_INC, MULTIPLIER_MAX)
                 ELSE w.multiplier
    IN  [w EXCEPT
           !.recentShots = shots,
           !.lastShotMs = t,
           !.multiplier = mult,
           !.recoil = @ + RECOIL_KICK * mult,
           !.spread = Min(@ + SPREAD_PER_SHOT * mult, SPREAD_MAX * 100)]

\* fire() with a rate gate of its own: nothing happens before the cooldown
WeaponFireGated(w, t) ==
    IF t - w.lastShotMs < FIRE_RATE_MS THEN w
    ELSE LET shots == Append(w.recentShots, t)
             mult  == IF Len(shots) > 2
                      THEN Min(100 + (Len(shots) - 2) * MULTIPLIER_INC, MULTIPLIER_MAX)
                      ELSE w.multiplier
         IN  [w EXCEPT
                !.recentShots = shots,
                !.lastShotMs = t,
                !.multiplier = mult,
                !.recoil = Min(@ + RECOIL_KICK * mult, RECOIL_MAX * 100),
                !.spread = Min(@ + SPREAD_PER_SHOT * mult, SPREAD_MAX * 100)]

\* Weapon.fire(), performance.now() = t: the weapon after the call
WeaponFire(w, t) ==
    LET shots == Append(w.recentShots, t)
        mult  == IF Len(shots) > 2
                 THEN Min(100 + (Len(shots) - 2) * MULTIPLIER_INC, MULTIPLIER_MAX)
                 ELSE w.multiplier
    IN  [w EXCEPT
           !.recentShots = shots,
           !.lastShotMs = t,
           !.multiplier = mult,
           !.recoil = Min(@ + RECOIL_KICK * mult, RECOIL_MAX * 100),
           !.spread = Min(@ + SPREAD_PER_SHOT * mult, SPREAD_MAX * 100)]

\* Weapon.canFire(), performance.now() = t
WeaponCanFire(w, t) == t - w.lastShotMs >= FIRE_RATE_MS

\* a reset that keeps the rapid-fire timestamp history
WeaponResetKeepsHistory(w) ==
    [w EXCEPT !.recoil = 0, !.multiplier = 100, !.spread = SPREAD_BASE * 100]

\* Weapon.reset()
WeaponReset(w) ==
    [w EXCEPT !.recoil = 0, !.multiplier = 100,
              !.spread = SPREAD_BASE * 100, !.recentShots = <<>>]

(***************************************************************************)
(* GAME_CONFIG.TARGET, GAME_CONFIG.CAMERA (src/config.js)                  *)
(***************************************************************************)
BASE_SIZE == 80

MICRO_SIZE == 40

\* degrees / second^2
FALL_ACCEL == 180

\* peek timing, milliseconds
GLOW_MS == 500

EXPOSE_S == 2000

REST_S == 1500

\* world units / second
RISE_SPEED == 2

\* 2.5 world units / second, in tenths
DROP_SPEED == 25

\* -0.8, in thousandths
HIDDEN_Y == -800

\* STRAFE_BOUNDS, in ten-thousandths
STRAFE_MIN == -8000

STRAFE_MAX == 8000

\* 0.45 and 0.95, in hundredths
HORIZON_RATIO == 45

PERSPECTIVE_SCALE == 95

\* the window (window.innerWidth x window.innerHeight), pixels
ScreenW == 10 * 100

ScreenH == 6 * 100

(***************************************************************************)
(* Target (src/target.js)                                                  *)
(***************************************************************************)
\* new Target(worldX, worldY, distance, type); speed and dir are the two
\* random draws of the constructor that behaviour depends on
NewTarget(x, y, d, type, speed, dir) ==
    [type |-> type,
     worldX |-> x,
     worldY |-> IF type = "peek" THEN HIDDEN_Y ELSE y,
     distance |-> d,
     baseSize |-> IF type = "micro" THEN MICRO_SIZE ELSE BASE_SIZE,
     isFalling |-> FALSE, fallAngle |-> 0, fallVel |-> 0, fallTimer |-> 0,
     impactFlash |-> 0,
     strafeActive |-> type = "strafe", speed |-> speed, dir |-> dir,
     originX |-> x,
     peekActive |-> type = "peek",
     phase |-> IF type = "peek" THEN "hidden" ELSE "none",
     hiddenFor |-> 0, upFor |-> 0,
     glowStart |-> 0, activeAt |-> 0, isGlowing |-> FALSE,
     isActive |-> type # "peek",
     isHit |-> FALSE]

\* a fall whose angle is not held at -90 degrees
UpdateFallUnclamped(t, dt) ==
    LET vel == t.fallVel + (FALL_ACCEL * dt) \div 1000
    IN  [t EXCEPT !.fallTimer = @ + dt,
                  !.fallVel = vel,
                  !.fallAngle = @ - vel * dt]

\* Target._updateFall(dt)
UpdateFall(t, dt) ==
    LET vel == t.fallVel + (FALL_ACCEL * dt) \div 1000
    IN  [t EXCEPT !.fallTimer = @ + dt,
                  !.fallVel = vel,
                  !.fallAngle = Max(-90000, @ - vel * dt)]

\* Target._startGlow(), performance.now() = clock
StartGlow(t, clock) ==
    [t EXCEPT !.glowStart = clock, !.isGlowing = TRUE, !.activeAt = 0,
              !.isActive = FALSE]

\* a strafe that turns round at the bounds without being put back on them
UpdateStrafeOvershoot(t, dt) ==
    IF ~t.strafeActive THEN t
    ELSE LET x1 == t.worldX + (t.speed * t.dir * dt) \div 10
         IN  [t EXCEPT !.worldX = x1,
                       !.dir = IF x1 >= STRAFE_MAX THEN -1
                               ELSE IF x1 <= STRAFE_MIN THEN 1 ELSE @]

\* the strafe part of Target._updateBehaviour(dt)
UpdateStrafe(t, dt) ==
    IF ~t.strafeActive THEN t
    ELSE LET x1 == t.worldX + (t.speed * t.dir * dt) \div 10
             atMax == x1 >= STRAFE_MAX
             x2 == IF atMax THEN STRAFE_MAX ELSE x1
             d2 == IF atMax THEN -1 ELSE t.dir
             atMin == x2 <= STRAFE_MIN
         IN  [t EXCEPT !.worldX = IF atMin THEN STRAFE_MIN ELSE x2,
                       !.dir = IF atMin THEN 1 ELSE d2]

\* a peek target that is exposed as soon as its rest is over, with no rise
UpdatePeekNoRise(t, dt, clock) ==
    IF ~t.peekActive THEN t
    ELSE IF t.phase = "hidden" /\ t.hiddenFor + dt >= REST_S
    THEN StartGlow([t EXCEPT !.phase = "exposed", !.worldY = 0,
                             !.hiddenFor = 0, !.upFor = 0], clock)
    ELSE IF t.phase = "hidden"
    THEN [t EXCEPT !.isActive = FALSE, !.hiddenFor = @ + dt]
    ELSE t

\* the peek part of Target._updateBehaviour(dt), performance.now() = clock
UpdatePeek(t, dt, clock) ==
    IF ~t.peekActive THEN t
    ELSE CASE t.phase = "hidden" ->
                LET h == t.hiddenFor + dt
                IN  IF h >= REST_S
                    THEN [t EXCEPT !.isActive = FALSE, !.phase = "rising",
                                   !.hiddenFor = 0]
                    ELSE [t EXCEPT !.isActive = FALSE, !.hiddenFor = h]
           [] t.phase = "rising" ->
                LET y == t.worldY + RISE_SPEED * dt
                IN  IF y >= 0
                    THEN StartGlow([t EXCEPT !.worldY = 0, !.phase = "exposed",
                                             !.upFor = 0], clock)
                    ELSE [t EXCEPT !.worldY = y]
           [] t.phase = "exposed" ->
                LET up == t.upFor + dt
                    lit == t.isGlowing /\ clock - t.glowStart >= GLOW_MS
                    t1 == IF lit
                          THEN [t EXCEPT !.upFor = up, !.isGlowing = FALSE,
                                         !.activeAt = clock, !.isActive = TRUE]
                          ELSE [t EXCEPT !.upFor = up]
                IN  IF up >= EXPOSE_S THEN [t1 EXCEPT !.phase = "dropping"]
                    ELSE t1
           [] t.phase = "dropping" ->
                LET y == t.worldY - (DROP_SPEED * dt) \div 10
                IN  IF y <= HIDDEN_Y
                    THEN [t EXCEPT !.isActive = FALSE, !.isGlowing = FALSE,
                                   !.worldY = HIDDEN_Y, !.phase = "hidden"]
                    ELSE [t EXCEPT !.isActive = FALSE, !.isGlowing = FALSE,
                                   !.worldY = y]
           [] OTHER -> t

\* Target._updateBehaviour(dt)
UpdateBehaviour(t, dt, clock) == UpdatePeek(UpdateStrafe(t, dt), dt, clock)

\* an update that keeps up the behaviour of a falling target
TargetUpdateBehaving(t, dt, clock) ==
    LET t0 == UpdateBehaviour(t, dt, clock)
        t1 == IF t.isFalling THEN UpdateFall(t0, dt) ELSE t0
    IN  IF t1.impactFlash > 0
        THEN [t1 EXCEPT !.impactFlash = Max(0, @ - dt * 5)]
        ELSE t1

\* Target.update(dt, totalTime); the idle swing angle is display only
TargetUpdate(t, dt, clock) ==
    LET t1 == IF t.isFalling THEN UpdateFall(t, dt)
              ELSE UpdateBehaviour(t, dt, clock)
    IN  IF t1.impactFlash > 0
        THEN [t1 EXCEPT !.impactFlash = Max(0, @ - dt * 5)]
        ELSE t1

\* onHit without the early return for a target that is already falling
TargetOnHitUnguarded(t, isCenterHit) ==
    [t EXCEPT !.isHit = TRUE, !.isFalling = TRUE, !.fallTimer = 0,
              !.impactFlash = 1000,
              !.fallVel = IF isCenterHit THEN 120 ELSE 80]

\* Target.onHit(isCenterHit): the target after the call
TargetOnHit(t, isCenterHit) ==
    IF t.isFalling THEN t
    ELSE [t EXCEPT !.isHit = TRUE, !.isFalling = TRUE, !.fallTimer = 0,
                   !.impactFlash = 1000,
                   !.fallVel = IF isCenterHit THEN 120 ELSE 80]

\* Target.onHit(isCenterHit): the reaction time it returns
OnHitReaction(t, clock) ==
    IF t.isFalling THEN 0
    ELSE IF t.activeAt > 0 THEN clock - t.activeAt ELSE 0

\* a reset that leaves a strafe target where it is
TargetResetInPlace(t) ==
    LET t1 == [t EXCEPT !.isHit = FALSE, !.isFalling = FALSE, !.fallAngle = 0,
                        !.fallVel = 0, !.fallTimer = 0, !.impactFlash = 0,
                        !.glowStart = 0, !.activeAt = 0, !.isGlowing = FALSE]
    IN  IF t.peekActive
        THEN [t1 EXCEPT !.phase = "hidden", !.hiddenFor = 0, !.upFor = 0,
                        !.worldY = HIDDEN_Y, !.isActive = FALSE]
        ELSE t1

\* Target.reset()
TargetReset(t) ==
    LET t1 == [t EXCEPT !.isHit = FALSE, !.isFalling = FALSE, !.fallAngle = 0,
                        !.fallVel = 0, !.fallTimer = 0, !.impactFlash = 0,
                        !.glowStart = 0, !.activeAt = 0, !.isGlowing = FALSE,
                        !.worldX = IF t.strafeActive THEN t.originX ELSE @]
    IN  IF t.peekActive
        THEN [t1 EXCEPT !.phase = "hidden", !.hiddenFor = 0, !.upFor = 0,
                        !.worldY = HIDDEN_Y, !.isActive = FALSE]
        ELSE t1

(***************************************************************************)
(* Projection and hit test (src/game.js, src/target.js)                    *)
(***************************************************************************)
\* Game.worldToScreen(wx, wy, d) under camera look lk
WorldToScreen(wx, wy, d, lk) ==
    LET dd == Max(1, Min(100, d))
        scale == 2000 - (PERSPECTIVE_SCALE * dd) \div 5
        adjustedX == wx - lk.x
        horizonShift == (lk.y * ScreenH * 15) \div 10000
        hy == (ScreenH * HORIZON_RATIO) \div 10 + horizonShift
        gh == ScreenH * 10 - hy
        yDepth == (100 - dd) * (100 - dd)
    IN  [x |-> ScreenW * 5 + (adjustedX * ((ScreenW * scale) \div 500)) \div 10000,
         y |-> hy + (gh * yDepth) \div 10000 - (wy * scale) \div 2000,
         scale |-> scale]

\* the projected disc radius baseSize * scale * 0.5
HitRadius(t, pos) == (t.baseSize * pos.scale) \div 400

\* checkHit without the test of peek.active && !isActive
TargetCheckHitNoPeekGate(t, sx, sy, lk) ==
    IF t.isFalling /\ t.fallAngle < -45000 THEN FALSE
    ELSE LET pos == WorldToScreen(t.worldX, t.worldY, t.distance, lk)
             radius == HitRadius(t, pos)
             dx == sx - pos.x
             dy == sy - pos.y
         IN  dx * dx + dy * dy <= radius * radius

\* Target.checkHit(sx, sy, game)
TargetCheckHit(t, sx, sy, lk) ==
    IF t.isFalling /\ t.fallAngle < -45000 THEN FALSE
    ELSE IF t.peekActive /\ ~t.isActive THEN FALSE
    ELSE LET pos == WorldToScreen(t.worldX, t.worldY, t.distance, lk)
             radius == HitRadius(t, pos)
             dx == sx - pos.x
             dy == sy - pos.y
         IN  dx * dx + dy * dy <= radius * radius

\* Target.isCenterHit(sx, sy, game): within 30% of the radius.  The two
\* linear comparisons are implied by the quadratic one and keep the
\* products small.
TargetIsCenterHit(t, sx, sy, lk) ==
    LET pos == WorldToScreen(t.worldX, t.worldY, t.distance, lk)
        radius == HitRadius(t, pos)
        dx == sx - pos.x
        dy == sy - pos.y
    IN  /\ 10 * dx <= 3 * radius /\ 10 * dx >= -3 * radius
        /\ 10 * dy <= 3 * radius /\ 10 * dy >= -3 * radius
        /\ 100 * (dx * dx + dy * dy) <= 9 * radius * radius

\* Renderer.castRay: the targets whose disc meshes the ray is tested against
CastRayMeshes(ts) ==
    {i \in 1..Len(ts) :
        /\ ~ts[i].isFalling \/ ts[i].fallAngle > -45000
        /\ ~ts[i].peekActive \/ ts[i].isActive}

\* no sort: the targets are tried in array order
SortRankArrayOrder(ts, i) == i

\* [...targets].sort((a, b) => a.distance - b.distance): the position of
\* targets[i] in the sorted copy (the sort is stable)
SortRank(ts, i) ==
    Cardinality({j \in 1..Len(ts) :
                    \/ ts[j].distance < ts[i].distance
                    \/ ts[j].distance = ts[i].distance /\ j < i}) + 1

NoHit == [hit |-> FALSE, target |-> 0, isCenterHit |-> FALSE]

\* Game.checkTargetHit(cx, cy, spreadOffset): target is an index of ts
CheckTargetHit(ts, cx, cy, off, lk) ==
    LET sx == cx + off.x
        sy == cy + off.y
        passing == {i \in 1..Len(ts) : TargetCheckHit(ts[i], sx, sy, lk)}
    IN  IF passing = {} THEN NoHit
        ELSE LET first == CHOOSE i \in passing :
                              \A j \in passing : SortRank(ts, i) <= SortRank(ts, j)
             IN  [hit |-> TRUE, target |-> first,
                  isCenterHit |-> TargetIsCenterHit(ts[first], sx, sy, lk)]

\* InputHandler.centerX / centerY: the middle of the window
CenterX == ScreenW * 5

CenterY == ScreenH * 5

(***************************************************************************)
(* Session statistics (src/game.js).  avgReaction and the variance under   *)
(* the square root of consistency are exact fractions in lowest terms.     *)
(***************************************************************************)
\* bestReaction: Infinity
Infinity == 2147483647

RECURSIVE GCD(_, _)
GCD(a, b) == IF b = 0 THEN a ELSE GCD(b, a % b)

Rat(n, d) == LET g == GCD(n, d) IN [num |-> n \div g, den |-> d \div g]

RECURSIVE SeqSum(_)
SeqSum(q) == IF q = <<>> THEN 0 ELSE q[1] + SeqSum(Tail(q))

\* Game._blankStats()
BlankStats ==
    [shots |-> 0, hits |-> 0, reactionTimes |-> <<>>, avgReaction |-> Rat(0, 1),
     bestReaction |-> Infinity, consistencySq |-> Rat(0, 1)]

\* reactionTimes.reduce((acc, t) => acc + (t - mean) ** 2, 0) / length, with
\* mean = sum / n: the sum of (n*t - sum)^2 over n^3
Variance(rt) ==
    LET n == Len(rt)
        sum == SeqSum(rt)
        Dev(i) == (n * rt[i] - sum) * (n * rt[i] - sum)
        sq == [i \in 1..n |-> Dev(i)]
    IN  Rat(SeqSum(sq), n * n * n)

\* recordShot counting a hit whatever the hit flag says
RecordShotAlwaysHit(s, hit, reactionMs) ==
    [s EXCEPT !.shots = @ + 1, !.hits = @ + 1]

\* recordShot with the sample variance (n - 1) in place of the population
\* variance
RecordShotSampleVariance(s, hit, reactionMs) ==
    LET s1 == [s EXCEPT !.shots = @ + 1]
    IN  IF ~hit THEN s1
        ELSE LET s2 == [s1 EXCEPT !.hits = @ + 1]
             IN  IF reactionMs > 0 /\ reactionMs < 5000
                 THEN LET rt == Append(s2.reactionTimes, reactionMs)
                          n == Len(rt)
                      IN  [s2 EXCEPT
                             !.reactionTimes = rt,
                             !.bestReaction = IF reactionMs < @ THEN reactionMs ELSE @,
                             !.avgReaction = Rat(SeqSum(rt), n),
                             !.consistencySq =
                                 IF n > 1
                                 THEN Rat(Variance(rt).num * n, Variance(rt).den * (n - 1))
                                 ELSE @]
                 ELSE s2

\* Game.recordShot(hit, reactionMs): the stats after the call
RecordShot(s, hit, reactionMs) ==
    LET s1 == [s EXCEPT !.shots = @ + 1]
    IN  IF ~hit THEN s1
        ELSE LET s2 == [s1 EXCEPT !.hits = @ + 1]
             IN  IF reactionMs > 0 /\ reactionMs < 5000
                 THEN LET rt == Append(s2.reactionTimes, reactionMs)
                      IN  [s2 EXCEPT
                             !.reactionTimes = rt,
                             !.bestReaction = IF reactionMs < @ THEN reactionMs ELSE @,
                             !.avgReaction = Rat(SeqSum(rt), Len(rt)),
                             !.consistencySq = IF Len(rt) > 1 THEN Variance(rt) ELSE @]
                 ELSE s2

\* the accuracy recordShot and _endSession compute: hits / shots * 100
Accuracy(s) == IF s.shots > 0 THEN Rat(s.hits * 100, s.shots) ELSE Rat(0, 1)

(***************************************************************************)
(* History of the last call                                                *)
(***************************************************************************)
NoEv ==
    [op |-> "none", allowed |-> TRUE, inWindow |-> 0, hit |-> FALSE,
     target |-> 0, isCenterHit |-> FALSE, reaction |-> 0, wasFalling |-> FALSE,
     sx |-> 0, sy |-> 0, accuracy |-> Rat(0, 1), key |-> "", fallenFor |-> 0]

Look0 == [x |-> 0, y |-> 0]

\* the Game fields its constructor sets: mode, timer, lastFrameTime, the
\* preset state (preset is the key of _presetCfg, "none" stands for null);
\* saved is the list of sessions handed to StatsManager.save.  totalTime,
\* fps and the camera sway are display only.
NewGame ==
    [mode |-> "freeplay", lastMode |-> "freeplay", lastPreset |-> "none",
     timerActive |-> FALSE, remaining |-> 0, lastFrameTime |-> 0,
     preset |-> "none", spawnWait |-> 0, saved |-> <<>>]

\* the InputHandler after its constructor; timeouts holds the due times of
\* the pending setTimeout callbacks
NewInput == [locked |-> FALSE, canFire |-> TRUE, timeouts |-> {}]

\* history: scored[i] counts the hits recorded on targets[i] since it was
\* created or last reset, lastShot is the time of the last accepted shot,
\* ticked[i] is the tick time (the sum of dt) targets[i] has been updated for
\* since it was created or last reset, resets counts the direct calls of
\* Target.reset(), fallenFor[i] is the tick time since the fallAngle of
\* targets[i] reached -88 degrees, the frame on which it did included
\* lastCall: the last call of startMode or startPreset made from outside the
\* game, its function and its key; swingAt[i]: the clock reading of the
\* frame in which the swingAngle of targets[i] was last computed; period:
\* the wall-clock gap between the frames of a steady display
NoHist ==
    [scored |-> <<>>, lastShot |-> -1, ticked |-> <<>>, resets |-> 0,
     fallenFor |-> <<>>, lastCall |-> [fn |-> "none", key |-> ""],
     swingAt |-> <<>>, period |-> 0]

(***************************************************************************)
(* SpecWeapon: the Weapon object driven directly, fire(), update(dt) and   *)
(* reset() in any order, each call at a later clock reading.               *)
(***************************************************************************)
InitWeapon ==
    /\ now = 0
    /\ weapon = NewWeapon
    /\ targets = <<>>
    /\ look = Look0
    /\ stats = BlankStats
    /\ calls = <<>>
    /\ ev = NoEv
    /\ game = NewGame
    /\ input = NewInput
    /\ hist = NoHist

\* the number of fire timestamps within the last RAPID_FIRE.WINDOW_MS at
\* time t
ShotsInWindow(shots, t) ==
    LET InWindow(x) == t - x < WINDOW_MS
    IN  Len(SelectSeq(shots, InWindow))

\* a call of fire() at clock reading now + e
WFire ==
    \E e \in Steps :
        /\ now + e <= ClockEnd
        /\ Len(weapon.recentShots) < MaxShots
        /\ now' = now + e
        /\ weapon' = WeaponFire(weapon, now')
        /\ ev' = [NoEv EXCEPT
                    !.op = "fire",
                    !.allowed = WeaponCanFire(weapon, now'),
                    !.inWindow = ShotsInWindow(Append(weapon.recentShots, now'), now')]
        /\ UNCHANGED <<targets, look, stats, calls, game, input, hist>>

\* a call of update(dt) at clock reading now + e; inWindow records the
\* number of timestamps held before the call
WUpdate ==
    \E e \in Steps, dt \in Dts :
        /\ now + e <= ClockEnd
        /\ now' = now + e
        /\ weapon' = WeaponUpdate(weapon, dt, now')
        /\ ev' = [NoEv EXCEPT !.op = "update",
                              !.inWindow = Len(weapon.recentShots)]
        /\ UNCHANGED <<targets, look, stats, calls, game, input, hist>>

\* a call of reset()
WReset ==
    /\ weapon' = WeaponReset(weapon)
    /\ ev' = [NoEv EXCEPT !.op = "reset"]
    /\ UNCHANGED <<now, targets, look, stats, calls, game, input, hist>>

NextWeapon == WFire \/ WUpdate \/ WReset

SpecWeapon == InitWeapon /\ [][NextWeapon]_vars

(***************************************************************************)
(* Claims on the weapon                                                    *)
(***************************************************************************)
\* C5: after any sequence of fire(), update(dt >= 0) and reset() calls,
\* recoil.current is in [0, RECOIL.MAX], spread.current is in
\* [SPREAD.BASE, SPREAD.MAX] and recoil.multiplier is in
\* [1, RAPID_FIRE.MULTIPLIER_MAX].
C5_WeaponWithinBounds ==
    /\ weapon.recoil >= 0 /\ weapon.recoil <= RECOIL_MAX * 100
    /\ weapon.spread >= SPREAD_BASE * 100 /\ weapon.spread <= SPREAD_MAX * 100
    /\ weapon.multiplier >= 100 /\ weapon.multiplier <= MULTIPLIER_MAX

\* a shot that ends with recoil, spread and multiplier all at their maxima
C5_Witness ==
    /\ ev.op = "fire"
    /\ weapon.recoil = RECOIL_MAX * 100
    /\ weapon.spread = SPREAD_MAX * 100
    /\ weapon.multiplier = MULTIPLIER_MAX

\* C6: at every fire(), the multiplier applied to the shot is
\* min(1 + max(0, n-2) * MULTIPLIER_INC, MULTIPLIER_MAX) with n the number of
\* fire timestamps, this shot included, within the last WINDOW_MS; shots
\* older than the window do not count.
C6_MultiplierCountsWindowOnly ==
    ev.op = "fire" =>
        weapon.multiplier =
            Min(100 + Max(0, ev.inWindow - 2) * MULTIPLIER_INC, MULTIPLIER_MAX)

\* C8 as stated: fire() called while canFire() is false changes neither
\* recoil.current, recoil.multiplier, spread.current nor the timestamp
\* history.
C8_FireBeforeCooldownIsNoOp ==
    [][(ev'.op = "fire" /\ ~ev'.allowed) =>
           /\ weapon'.recoil = weapon.recoil
           /\ weapon'.multiplier = weapon.multiplier
           /\ weapon'.spread = weapon.spread
           /\ weapon'.recentShots = weapon.recentShots]_vars

\* C8 as amended: fire() has no rate gate of its own.  Called while
\* canFire() is false it records the shot like any other: the timestamp is
\* appended to the history, _lastShotMs becomes the current time, and
\* recoil.current and spread.current rise unless already at their maxima.
C8_FireHasNoRateGate ==
    [][(ev'.op = "fire" /\ ~ev'.allowed) =>
           /\ weapon'.recentShots = Append(weapon.recentShots, now')
           /\ weapon'.lastShotMs = now'
           /\ weapon'.recoil >= weapon.recoil
           /\ weapon'.spread >= weapon.spread
           /\ weapon.recoil < RECOIL_MAX * 100 => weapon'.recoil > weapon.recoil
           /\ weapon.spread < SPREAD_MAX * 100 => weapon'.spread > weapon.spread]_vars

\* fire() has been called before the cooldown elapsed
C8_Witness == ev.op = "fire" /\ ~ev.allowed

(***************************************************************************)
(* SpecStats: recordShot(hit, reactionMs) applied to the session stats,    *)
(* with _blankStats() in between.                                          *)
(***************************************************************************)
\* at most MaxCalls recordShot calls between two _blankStats
MaxCalls == 4

\* the reaction times handed to recordShot, milliseconds
Reactions == {0, 250, 350, 4999, 5000}

InitStats == InitWeapon

SRecord ==
    \E hit \in BOOLEAN, r \in Reactions :
        /\ Len(calls) < MaxCalls
        /\ stats' = RecordShot(stats, hit, r)
        /\ calls' = Append(calls, [hit |-> hit, reactionMs |-> r])
        /\ ev' = [NoEv EXCEPT !.op = "recordShot", !.hit = hit, !.reaction = r,
                              !.accuracy = Accuracy(stats')]
        /\ UNCHANGED <<now, weapon, targets, look, game, input, hist>>

SBlank ==
    /\ stats' = BlankStats
    /\ calls' = <<>>
    /\ ev' = [NoEv EXCEPT !.op = "blankStats"]
    /\ UNCHANGED <<now, weapon, targets, look, game, input, hist>>

NextStats == SRecord \/ SBlank

SpecStats == InitStats /\ [][NextStats]_vars

(***************************************************************************)
(* Claims on the session statistics                                        *)
(***************************************************************************)
IsHitCall(c) == c.hit

IsValidSample(c) == c.hit /\ c.reactionMs > 0 /\ c.reactionMs < 5000

\* the reactionMs of the calls that are hits with 0 < reactionMs < 5000, in
\* call order
RECURSIVE ValidSamples(_)
ValidSamples(cs) ==
    IF cs = <<>> THEN <<>>
    ELSE IF IsValidSample(cs[1])
         THEN <<cs[1].reactionMs>> \o ValidSamples(Tail(cs))
         ELSE ValidSamples(Tail(cs))

SeqMin(q) == CHOOSE m \in {q[i] : i \in 1..Len(q)} : \A i \in 1..Len(q) : m <= q[i]

\* the population variance of q, as mean of squares minus square of mean
PopVariance(q) ==
    LET n == Len(q)
        sq == [i \in 1..n |-> q[i] * q[i]]
    IN  Rat(n * SeqSum(sq) - SeqSum(q) * SeqSum(q), n * n)

\* C9: every recordShot(hit, reactionMs) increments shots by exactly 1 and
\* hits by exactly 1 iff hit is true; a miss leaves hits, reactionTimes,
\* avgReaction, bestReaction and consistency unchanged; accuracy is
\* hits / shots * 100.
C9_RecordShotCounts ==
    [][ev'.op = "recordShot" =>
          /\ stats'.shots = stats.shots + 1
          /\ stats'.hits = stats.hits + (IF ev'.hit THEN 1 ELSE 0)
          /\ ~ev'.hit => /\ stats'.reactionTimes = stats.reactionTimes
                         /\ stats'.avgReaction = stats.avgReaction
                         /\ stats'.bestReaction = stats.bestReaction
                         /\ stats'.consistencySq = stats.consistencySq
          /\ ev'.accuracy =
                 Rat(100 * Len(SelectSeq(calls', IsHitCall)), Len(calls'))]_vars

\* a miss recorded after a hit with a valid reaction time
C9_Witness ==
    /\ ev.op = "recordShot" /\ ~ev.hit
    /\ stats.hits > 0 /\ stats.reactionTimes # <<>> /\ stats.shots > stats.hits

\* C10: reactionTimes is the ordered list of the reactionMs of the hits with
\* 0 < reactionMs < 5000 since the last reset, avgReaction its mean,
\* bestReaction its minimum, and consistency its population standard
\* deviation when it holds at least 2 samples and 0 otherwise.
C10_ReactionStatistics ==
    LET q == ValidSamples(calls)
        n == Len(q)
    IN  /\ stats.reactionTimes = q
        /\ stats.avgReaction = (IF n = 0 THEN Rat(0, 1) ELSE Rat(SeqSum(q), n))
        /\ stats.bestReaction = (IF n = 0 THEN Infinity ELSE SeqMin(q))
        /\ stats.consistencySq = (IF n >= 2 THEN PopVariance(q) ELSE Rat(0, 1))

\* samples 250 then 350 give average 300, best 250 and consistency 50
C10_Witness ==
    /\ stats.reactionTimes = <<250, 350>>
    /\ stats.avgReaction = Rat(300, 1)
    /\ stats.bestReaction = 250
    /\ stats.consistencySq = Rat(50 * 50, 1)

(***************************************************************************)
(* SpecTarget: one Target object driven directly, update(dt), onHit() and  *)
(* reset() in any order.  A frame of wall-clock length e passes dt =        *)
(* min(e, 100 ms) to update (Game._loop).                                  *)
(***************************************************************************)
\* the clock of SpecTarget stops at MaxTClock quanta of TimeStep
MaxTClock == 24

TClockEnd == MaxTClock * TimeStep

\* the wall-clock lengths of a frame
FrameGaps == {TimeStep, 2 * TimeStep, 5 * TimeStep}

\* Game._loop: deltaTime = min((timestamp - lastFrameTime) / 1000, 0.1)
ClampDt(e) == Min(e, 100)

\* the targets Game._createTargets builds, one of each type; a peek target
\* starts with hiddenFor = i * 0.4 s, here i = 0 and i = 4
InitialTargets ==
    {NewTarget(0, 0, 45, "static", 35, 1),
     NewTarget(0, 0, 80, "micro", 35, 1),
     NewTarget(0, 0, 50, "strafe", 35, 1),
     NewTarget(6000, 0, 70, "strafe", 45, -1),
     NewTarget(0, 0, 65, "peek", 35, 1),
     [NewTarget(0, 0, 65, "peek", 35, 1) EXCEPT !.hiddenFor = 1600]}

InitTarget ==
    /\ now = 0
    /\ weapon = NewWeapon
    /\ targets \in {<<t>> : t \in InitialTargets}
    /\ look = Look0
    /\ stats = BlankStats
    /\ calls = <<>>
    /\ ev = NoEv
    /\ game = NewGame
    /\ input = NewInput
    /\ hist = NoHist

TUpdate ==
    \E e \in FrameGaps :
        /\ now + e <= TClockEnd
        /\ now' = now + e
        /\ targets' = <<TargetUpdate(targets[1], ClampDt(e), now')>>
        /\ ev' = [NoEv EXCEPT !.op = "update"]
        /\ UNCHANGED <<weapon, look, stats, calls, game, input, hist>>

TOnHit ==
    \E c \in BOOLEAN :
        /\ targets' = <<TargetOnHit(targets[1], c)>>
        /\ ev' = [NoEv EXCEPT !.op = "onHit", !.isCenterHit = c,
                              !.wasFalling = targets[1].isFalling,
                              !.reaction = OnHitReaction(targets[1], now)]
        /\ UNCHANGED <<now, weapon, look, stats, calls, game, input, hist>>

TReset ==
    /\ targets' = <<TargetReset(targets[1])>>
    /\ ev' = [NoEv EXCEPT !.op = "reset", !.wasFalling = targets[1].isFalling]
    /\ UNCHANGED <<now, weapon, look, stats, calls, game, input, hist>>

NextTarget == TUpdate \/ TOnHit \/ TReset

SpecTarget == InitTarget /\ [][NextTarget]_vars

(***************************************************************************)
(* Claims on one target                                                    *)
(***************************************************************************)
\* C4: onHit called on a target that is already falling returns 0 and
\* leaves isHit, isFalling, fallAngle, fallVel, fallTimer and impactFlash as
\* they were, for center and edge hits.
C4_SecondOnHitIsNoOp ==
    [][(ev'.op = "onHit" /\ targets[1].isFalling) =>
           /\ ev'.reaction = 0
           /\ targets'[1].isHit = targets[1].isHit
           /\ targets'[1].isFalling = targets[1].isFalling
           /\ targets'[1].fallAngle = targets[1].fallAngle
           /\ targets'[1].fallVel = targets[1].fallVel
           /\ targets'[1].fallTimer = targets[1].fallTimer
           /\ targets'[1].impactFlash = targets[1].impactFlash]_vars

\* a center onHit on a target that an edge hit knocked down earlier and that
\* has been falling for a while
C4_Witness ==
    /\ ev.op = "onHit" /\ ev.wasFalling /\ ev.isCenterHit
    /\ targets[1].isFalling /\ targets[1].fallTimer > 0
    /\ targets[1].fallAngle < 0 /\ targets[1].fallAngle > -90000
    /\ targets[1].fallVel = 80 + (FALL_ACCEL * targets[1].fallTimer) \div 1000

(***************************************************************************)
(* SpecResolve: Game.checkTargetHit applied to target sets drawn from      *)
(* states targets reach: upright, falling, peek glowing, peek active.      *)
(***************************************************************************)
\* a target set holds at most MaxTargets targets
MaxTargets == 3

\* k frames of 100 ms, the first ending at clock + 100
RECURSIVE Ticks(_, _, _)
Ticks(t, k, clock) ==
    IF k = 0 THEN t
    ELSE Ticks(TargetUpdate(t, 100, clock + 100), k - 1, clock + 100)

\* the states of a target at distance d in line with the crosshair: upright;
\* one and three frames after a center hit (fallAngle -13.8 and -46.8
\* degrees); a peek target glowing; a peek target active
TargetStates(d) ==
    LET up == NewTarget(0, 0, d, "static", 35, 1)
        pk == [NewTarget(0, 0, d, "peek", 35, 1) EXCEPT !.hiddenFor = 1600]
    IN  {up,
         Ticks(TargetOnHit(up, TRUE), 1, 0),
         Ticks(TargetOnHit(up, TRUE), 3, 0),
         Ticks(pk, 5, 0),
         Ticks(pk, 10, 0)}

ResolveTargets == UNION {TargetStates(d) : d \in {60, 70}}

\* the spread offsets of the shot, 1/10 pixel
ResolveOffsets == {[x |-> 0, y |-> 0], [x |-> 0, y |-> 100], [x |-> 0, y |-> 250]}

InitResolve ==
    /\ now = 0
    /\ weapon = NewWeapon
    /\ targets \in UNION {[1..n -> ResolveTargets] : n \in 1..MaxTargets}
    /\ look = Look0
    /\ stats = BlankStats
    /\ calls = <<>>
    /\ ev = NoEv
    /\ game = NewGame
    /\ input = NewInput
    /\ hist = NoHist

Resolve ==
    \E off \in ResolveOffsets :
        LET r == CheckTargetHit(targets, CenterX, CenterY, off, look)
        IN  /\ ev' = [NoEv EXCEPT !.op = "resolve", !.hit = r.hit,
                                  !.target = r.target,
                                  !.isCenterHit = r.isCenterHit,
                                  !.sx = CenterX + off.x, !.sy = CenterY + off.y]
            /\ UNCHANGED <<now, weapon, targets, look, stats, calls, game, input, hist>>

NextResolve == Resolve

SpecResolve == InitResolve /\ [][NextResolve]_vars

(***************************************************************************)
(* Claims on shot resolution                                               *)
(***************************************************************************)
\* targets[i] passes checkHit at the shot point of the last resolution
PassesAtShot(i) == TargetCheckHit(targets[i], ev.sx, ev.sy, look)

\* C1: checkTargetHit returns the nearest eligible target: if the result is
\* a hit on T then T passes checkHit and no target with a strictly smaller
\* distance passes checkHit at the shot point, and the result is a miss only
\* if no target passes checkHit.
C1_NearestEligibleTarget ==
    ev.op = "resolve" =>
        /\ ev.hit =>
              /\ ev.target \in 1..Len(targets)
              /\ PassesAtShot(ev.target)
              /\ \A j \in 1..Len(targets) :
                     targets[j].distance < targets[ev.target].distance
                         => ~PassesAtShot(j)
        /\ ~ev.hit => \A j \in 1..Len(targets) : ~PassesAtShot(j)

\* a hit on the nearer of two overlapping eligible targets, the farther one
\* standing earlier in the array
C1_Witness ==
    /\ ev.op = "resolve" /\ ev.hit
    /\ \E j \in 1..Len(targets) :
           /\ j < ev.target
           /\ targets[j].distance > targets[ev.target].distance
           /\ PassesAtShot(j)

(***************************************************************************)
(* Spec: the running game (src/game.js, src/input.js).  Animation frames,  *)
(* mouse input, the fire-rate timeout and startMode interleave freely.     *)
(* Sessions are started by startMode only, so _presetCfg stays null and    *)
(* the preset branch of _handleRespawns is never taken.                    *)
(***************************************************************************)
\* TARGET.RESET_DELAY, milliseconds
RESET_DELAY == 800

\* the clock of Spec stops at MaxClock quanta of TimeStep
MaxClock == 22

GameClockEnd == MaxClock * TimeStep

\* accepted shots per session
MaxRoundShots == 2

\* the wall-clock time from one animation frame to the next
GameGaps == {2 * TimeStep, 5 * TimeStep}

\* the mode keys passed to startMode
Modes == {"timed", "peek"}

\* startMode: durations[mode] ?? 0, milliseconds
Durations(mode) ==
    CASE mode = "timed" -> 30000
      [] mode = "strafe" -> 30000
      [] mode = "peek" -> 30000
      [] mode = "micro" -> 45000
      [] OTHER -> 0

\* startMode: typeMap[mode] || 'static'
TypeMap(mode) ==
    CASE mode = "strafe" -> "strafe"
      [] mode = "peek" -> "peek"
      [] mode = "micro" -> "micro"
      [] OTHER -> "static"

\* GAME_CONFIG.DRILLS[drillKey] || GAME_CONFIG.DRILLS.static
Drill(key) ==
    CASE key = "strafe" ->
            <<[x |-> -5000, y |-> 0, d |-> 30], [x |-> 4000, y |-> 0, d |-> 40],
              [x |-> -3000, y |-> 0, d |-> 60], [x |-> 6000, y |-> 0, d |-> 70],
              [x |-> 0, y |-> 0, d |-> 50]>>
      [] key = "peek" ->
            <<[x |-> -6000, y |-> 0, d |-> 35], [x |-> -2000, y |-> 0, d |-> 45],
              [x |-> 2000, y |-> 0, d |-> 50], [x |-> 6000, y |-> 0, d |-> 55],
              [x |-> 0, y |-> 0, d |-> 65]>>
      [] key = "micro" ->
            <<[x |-> -4000, y |-> 0, d |-> 70], [x |-> 4000, y |-> 0, d |-> 75],
              [x |-> 0, y |-> 0, d |-> 80], [x |-> -6000, y |-> 0, d |-> 65],
              [x |-> 6000, y |-> 0, d |-> 70], [x |-> 2000, y |-> 0, d |-> 85]>>
      [] OTHER ->
            <<[x |-> -3000, y |-> 0, d |-> 10], [x |-> 4000, y |-> 0, d |-> 25],
              [x |-> 0, y |-> 0, d |-> 45], [x |-> -5000, y |-> 0, d |-> 60],
              [x |-> 3000, y |-> 0, d |-> 80]>>

\* the strafe speed and direction each Target constructor draws; they are
\* read only by strafe targets, the others get one fixed draw
TargetDraws(key) ==
    IF key = "strafe"
    THEN [1..Len(Drill(key)) ->
            {[speed |-> 25, dir |-> 1], [speed |-> 45, dir |-> -1]}]
    ELSE {[i \in 1..Len(Drill(key)) |-> [speed |-> 35, dir |-> 1]]}

\* Game._createTargets(drillKey): peek targets are staggered by 0.4 s
CreateTargets(key, draw) ==
    [i \in 1..Len(Drill(key)) |->
        LET c == Drill(key)[i]
            t == NewTarget(c.x, c.y, c.d, key, draw[i].speed, draw[i].dir)
        IN  IF key = "peek" THEN [t EXCEPT !.hiddenFor = (i - 1) * 400] ELSE t]

\* an end of session that saves and leaves the timer running
EndSessionKeepsTimer(g, s) ==
    [g EXCEPT !.saved = Append(@, [mode |-> g.mode, shots |-> s.shots,
                                   hits |-> s.hits, accuracy |-> Accuracy(s),
                                   reactionMs |-> -1])]

\* Game._endSession(): the timer stops and the session is saved; a
\* reactionMs of -1 stands for null
EndSession(g, s) ==
    [g EXCEPT !.timerActive = FALSE, !.remaining = 0,
              !.saved = Append(@, [mode |-> g.mode, shots |-> s.shots,
                                   hits |-> s.hits, accuracy |-> Accuracy(s),
                                   reactionMs |-> IF s.bestReaction < Infinity
                                                  THEN s.bestReaction ELSE -1])]

\* the timer part of Game._update(dt)
UpdateTimer(g, s, dt) ==
    IF g.timerActive
    THEN LET g1 == [g EXCEPT !.remaining = @ - dt]
         IN  IF g1.remaining <= 0 THEN EndSession(g1, s) ELSE g1
    ELSE g

\* a reset test that does not ask whether the timer runs
DueForResetUntimed(t, g) ==
    /\ t.isFalling
    /\ t.fallAngle <= -88000
    /\ t.fallTimer > RESET_DELAY

\* Game._handleRespawns: the test a fallen target passes to be reset
DueForReset(t, g) ==
    /\ g.timerActive
    /\ t.isFalling
    /\ t.fallAngle <= -88000
    /\ t.fallTimer > RESET_DELAY

\* PRESETS.flick.spawnDelayS, milliseconds
SPAWN_DELAY_S == 300

\* PRESETS.flick.distances
FlickDistances == {40, 50, 60, 70}

\* the draws of _spawnFlickTarget: x = cos(angle) * spawnRadius with angle
\* a quarter turn or zero, d from the distances pool
FlickDraws == {[x |-> 0, d |-> 50], [x |-> 7000, d |-> 70]}

\* a spawn that adds the new target to the fallen one's place twice over
SpawnFlickTargetPair(draw) ==
    <<NewTarget(draw.x, 0, draw.d, "static", 35, 1),
      NewTarget(0 - draw.x, 0, draw.d, "static", 35, 1)>>

\* Game._spawnFlickTarget(): the new target set
SpawnFlickTarget(draw) == <<NewTarget(draw.x, 0, draw.d, "static", 35, 1)>>

\* Game._handleRespawns, flick: there is no target or it has fallen
FlickFallen(ts) ==
    Len(ts) = 0 \/ (ts[1].isFalling /\ ts[1].fallAngle <= -88000)

\* Game._handleRespawns, flick: the countdown runs out on this frame
FlickRespawns(ts, g, dt) ==
    g.preset = "flick" /\ FlickFallen(ts) /\ g.spawnWait - dt <= 0

\* _presetSpawnWait after Game._handleRespawns(dt)
RespawnWait(ts, g, dt) ==
    IF g.preset = "flick" /\ FlickFallen(ts)
    THEN IF g.spawnWait - dt <= 0 THEN SPAWN_DELAY_S ELSE g.spawnWait - dt
    ELSE g.spawnWait

\* Game._handleRespawns(dt): the targets after the call; draw is the random
\* draw of a flick respawn
HandleRespawns(ts, g, dt, draw) ==
    IF g.preset = "flick"
    THEN IF FlickRespawns(ts, g, dt) THEN SpawnFlickTarget(draw) ELSE ts
    ELSE [i \in 1..Len(ts) |-> IF DueForReset(ts[i], g) THEN TargetReset(ts[i])
                               ELSE ts[i]]

\* the mousemove handler: sensitivity 0.0015 rad per pixel, 0.4 of it
\* vertically, lookY clamped to [-0.3, 0.3]
MouseLook(lk, mx, my) ==
    [x |-> lk.x + 15 * mx, y |-> Max(-3000, Min(3000, lk.y + 6 * my))]

\* the camera looks used: straight ahead, at the static target at
\* distance 0.45, at the risen peek target at distance 0.65
AimStatic == [x |-> 0, y |-> -1110]

AimPeek == [x |-> 0, y |-> -132]

Looks == {Look0, AimStatic, AimPeek}

\* mouse movements (movementX, movementY) in pixels
MouseMoves == {[mx |-> 0, my |-> k] : k \in {-185, -22, 163, -163}}

\* the deviation Weapon.fire() returns after its update of the spread: none,
\* or half the spread to the right; 1/10 pixel
SpreadOffsets(w) == {[x |-> 0, y |-> 0], [x |-> w.spread \div 20, y |-> 0]}

\* the gate with no test at all
FireGateOpen(inp, w, t) == TRUE

\* InputHandler._fire: this.canFire && this.game.weapon.canFire()
FireGate(inp, w, t) == inp.canFire /\ WeaponCanFire(w, t)

ZeroScores(ts) == [i \in 1..Len(ts) |-> 0]

Init ==
    /\ now = 0
    /\ weapon = NewWeapon
    /\ targets \in {CreateTargets("static", d) : d \in TargetDraws("static")}
    /\ look = Look0
    /\ stats = BlankStats
    /\ game = NewGame
    /\ input = NewInput
    /\ calls = <<>>
    /\ hist = [NoHist EXCEPT !.scored = ZeroScores(targets),
                             !.fallenFor = ZeroScores(targets)]
    /\ ev = NoEv

\* Game._loop(timestamp) at timestamp now + e: _update(dt) runs the weapon,
\* the timer, every target and the respawns; the frames come after one of
\* gaps and run until the clock reads end
FrameWith(gaps, end) ==
    \E e \in gaps :
        LET t == now + e
            dt == ClampDt(t - game.lastFrameTime)
            n == Len(targets)
            g1 == UpdateTimer([game EXCEPT !.lastFrameTime = t], stats, dt)
        IN  /\ t <= end
            /\ now' = t
            /\ weapon' = WeaponUpdate(weapon, dt, t)
            \* ts1: the targets after their updates
            /\ \E ts1 \in {[i \in 1..n |-> TargetUpdate(targets[i], dt, t)]} :
                 LET respawn == FlickRespawns(ts1, g1, dt)
                     Fallen(i) == IF ts1[i].isFalling /\ ts1[i].fallAngle <= -88000
                                  THEN hist.fallenFor[i] + dt ELSE 0
                     Replaced(i) == \/ respawn
                                    \/ g1.preset # "flick" /\ DueForReset(ts1[i], g1)
                 IN  /\ game' = [g1 EXCEPT !.spawnWait = RespawnWait(ts1, g1, dt)]
                     /\ \E draw \in IF respawn THEN FlickDraws ELSE {[x |-> 0, d |-> 0]} :
                           targets' = HandleRespawns(ts1, g1, dt, draw)
                     /\ hist' = [hist EXCEPT
                                   !.scored = [i \in 1..n |->
                                                 IF Replaced(i) THEN 0 ELSE @[i]],
                                   !.fallenFor = [i \in 1..n |->
                                                    IF Replaced(i) THEN 0 ELSE Fallen(i)]]
                     /\ ev' = IF \A i \in 1..n : ~Replaced(i) THEN NoEv
                              ELSE LET i == CHOOSE j \in 1..n :
                                               /\ Replaced(j)
                                               /\ \A k \in 1..n :
                                                     Replaced(k) => Fallen(j) <= Fallen(k)
                                   IN  [NoEv EXCEPT !.op = "respawn", !.target = i,
                                                    !.fallenFor = Fallen(i)]
            /\ UNCHANGED <<look, stats, input, calls>>

FrameUntil(end) == FrameWith(GameGaps, end)

Frame == FrameUntil(GameClockEnd)

\* pointerlockchange: the canvas gains or loses the pointer lock
PointerLockChange ==
    /\ input' = [input EXCEPT !.locked = ~@]
    /\ ev' = NoEv
    /\ UNCHANGED <<now, weapon, targets, look, stats, game, calls, hist>>

\* mousemove while locked, by one of moves to one of looks
MouseMoveWith(moves, looks) ==
    \E m \in moves :
        /\ input.locked
        /\ MouseLook(look, m.mx, m.my) \in looks
        /\ look' = MouseLook(look, m.mx, m.my)
        /\ ev' = NoEv
        /\ UNCHANGED <<now, weapon, targets, stats, game, input, calls, hist>>

MouseMove == MouseMoveWith(MouseMoves, Looks)

\* mousedown with the left button while locked: InputHandler._fire()
FireInput ==
    \E click \in {"left"} :
        LET t == now
            accepted == FireGate(input, weapon, t)
            w1 == WeaponFire(weapon, t)
        IN  /\ input.locked
            /\ accepted => stats.shots < MaxRoundShots
            /\ IF ~accepted
               THEN /\ ev' = [NoEv EXCEPT !.op = "fire", !.allowed = FALSE]
                    /\ UNCHANGED <<weapon, targets, stats, input, calls, hist>>
               ELSE \E off \in SpreadOffsets(w1) :
                      LET r == CheckTargetHit(targets, CenterX, CenterY, off, look)
                          reactionMs == IF r.hit
                                        THEN OnHitReaction(targets[r.target], t)
                                        ELSE 0
                      IN  /\ weapon' = w1
                          /\ targets' = IF r.hit
                                        THEN [targets EXCEPT ![r.target] =
                                                TargetOnHit(@, r.isCenterHit)]
                                        ELSE targets
                          /\ stats' = RecordShot(stats, r.hit, reactionMs)
                          /\ calls' = Append(calls, [hit |-> r.hit,
                                                     reactionMs |-> reactionMs])
                          /\ input' = [input EXCEPT
                                         !.canFire = FALSE,
                                         !.timeouts = @ \cup {t + FIRE_RATE_MS}]
                          /\ hist' = [hist EXCEPT
                                        !.scored = IF r.hit
                                                   THEN [@ EXCEPT ![r.target] = @ + 1]
                                                   ELSE @,
                                        !.lastShot = t]
                          /\ ev' = [NoEv EXCEPT
                                      !.op = "fire", !.allowed = TRUE,
                                      !.hit = r.hit, !.target = r.target,
                                      !.isCenterHit = r.isCenterHit,
                                      !.reaction = reactionMs,
                                      !.wasFalling = r.hit /\ targets[r.target].isFalling,
                                      !.sx = CenterX + off.x,
                                      !.sy = CenterY + off.y]
            /\ UNCHANGED <<now, look, game>>

\* the callback of setTimeout(.., FIRE_RATE_MS), once it is due
CooldownTimeout ==
    \E due \in input.timeouts :
        /\ due <= now
        /\ input' = [input EXCEPT !.canFire = TRUE, !.timeouts = @ \ {due}]
        /\ ev' = NoEv
        /\ UNCHANGED <<now, weapon, targets, look, stats, game, calls, hist>>

\* Game.startMode(mode) with mode one of keys, called from a click on a
\* button of a panel; while the pointer is locked every click goes to the
\* canvas.  op is "startMode" for a call of its own and "restart" for the
\* call restartLastMode makes
StartModeCall(keys, op) ==
    \E mode \in keys : \E draw \in TargetDraws(TypeMap(mode)) :
        /\ ~input.locked
        /\ game' = [game EXCEPT !.mode = mode, !.lastMode = mode,
                                !.lastPreset = "none", !.preset = "none",
                                !.timerActive = Durations(mode) > 0,
                                !.remaining = Durations(mode)]
        /\ stats' = BlankStats
        /\ calls' = <<>>
        /\ weapon' = WeaponReset(weapon)
        /\ targets' = CreateTargets(TypeMap(mode), draw)
        /\ hist' = [hist EXCEPT !.scored = ZeroScores(targets'),
                                !.fallenFor = ZeroScores(targets'),
                                !.lastCall = IF op = "restart" THEN @
                                             ELSE [fn |-> op, key |-> mode]]
        /\ ev' = [NoEv EXCEPT !.op = op, !.key = mode]
        /\ UNCHANGED <<now, look, input>>

StartModeWith(keys) == StartModeCall(keys, "startMode")

StartMode == StartModeWith(Modes)

\* the keys of GAME_CONFIG.PRESETS
PresetNames == {"flick", "tracking", "micro-adjust"}

\* GAME_CONFIG.PRESETS[key].timerS, milliseconds
PresetTimer(key) == IF key = "micro-adjust" THEN 90000 ELSE 60000

\* startPreset: this.mode = `preset-${key}`
PresetMode(key) ==
    CASE key = "flick" -> "preset-flick"
      [] key = "tracking" -> "preset-tracking"
      [] OTHER -> "preset-micro-adjust"

\* the random draws of the spawn functions: flick as FlickDraws; tracking
\* x = (random - 0.5) * 1.0 and the direction of each target; micro-adjust
\* x = cx + (random - 0.5) * spawnRadius around cx = 0.05
PresetDraws(key) ==
    CASE key = "flick" -> FlickDraws
      [] key = "tracking" -> {[xs |-> <<-2500, 0, 2500>>, dirs |-> <<1, -1, 1>>]}
      [] OTHER -> {[xs |-> <<-1000, 500, 2000>>]}

\* Game._spawnTrackingTargets(cfg): distances 0.35, 0.45, 0.55, speeds
\* 0.25, 0.35, 0.45
SpawnTrackingTargets(draw) ==
    [i \in 1..3 |-> NewTarget(draw.xs[i], 0, <<35, 45, 55>>[i], "strafe",
                              <<25, 35, 45>>[i], draw.dirs[i])]

\* Game._spawnMicroAdjustTargets(cfg): distances 0.5, 0.6, 0.7
SpawnMicroAdjustTargets(draw) ==
    [i \in 1..3 |-> NewTarget(draw.xs[i], 0, <<50, 60, 70>>[i], "micro", 35, 1)]

\* startPreset: the targets spawned for a key of PRESETS
SpawnPreset(key, draw) ==
    CASE key = "flick" -> SpawnFlickTarget(draw)
      [] key = "tracking" -> SpawnTrackingTargets(draw)
      [] OTHER -> SpawnMicroAdjustTargets(draw)

\* Game.startPreset(key) with key one of keys, called from a click on a
\* button of a panel; a key that is no key of PRESETS returns at once.  op
\* is "startPreset" for a call of its own and "restart" for the call
\* restartLastMode makes
StartPresetCall(keys, op) ==
    \E key \in keys : \E draw \in PresetDraws(key) :
        /\ ~input.locked
        /\ IF key \notin PresetNames
           THEN /\ ev' = [NoEv EXCEPT !.op = op, !.key = key,
                                      !.allowed = FALSE]
                /\ hist' = [hist EXCEPT !.lastCall =
                                IF op = "restart" THEN @
                                ELSE [fn |-> op, key |-> key]]
                /\ UNCHANGED <<game, stats, calls, weapon, targets>>
           ELSE /\ game' = [game EXCEPT !.mode = PresetMode(key),
                                        !.lastMode = "none",
                                        !.lastPreset = key, !.preset = key,
                                        !.spawnWait = 0, !.timerActive = TRUE,
                                        !.remaining = PresetTimer(key)]
                /\ stats' = BlankStats
                /\ calls' = <<>>
                /\ weapon' = WeaponReset(weapon)
                /\ targets' = SpawnPreset(key, draw)
                /\ hist' = [hist EXCEPT !.scored = ZeroScores(targets'),
                                        !.fallenFor = ZeroScores(targets'),
                                        !.lastCall =
                                            IF op = "restart" THEN @
                                            ELSE [fn |-> op, key |-> key]]
                /\ ev' = [NoEv EXCEPT !.op = op, !.key = key]
        /\ UNCHANGED <<now, look, input>>

StartPresetWith(keys) == StartPresetCall(keys, "startPreset")

\* a restart that always starts the 'timed' mode
RestartAsTimed(g) == "timed"

\* restartLastMode: the key this._lastMode || 'timed'; a null _lastMode is
\* "none"
RestartModeKey(g) == IF g.lastMode = "none" THEN "timed" ELSE g.lastMode

\* Game.restartLastMode(), called from the Play Again button of the
\* game-over panel; enabled here wherever the pointer is free, which
\* includes every state in which that panel is shown
RestartLastMode ==
    IF game.lastPreset # "none"
    THEN StartPresetCall({game.lastPreset}, "restart")
    ELSE StartModeCall({RestartModeKey(game)}, "restart")

Next ==
    \/ Frame
    \/ PointerLockChange
    \/ MouseMove
    \/ FireInput
    \/ CooldownTimeout
    \/ StartMode

Spec == Init /\ [][Next]_vars

(***************************************************************************)
(* Claims on the running game                                              *)
(***************************************************************************)
\* a hit-testable target: active and not fallen past the dead angle
HitTestable(t) == t.isActive /\ ~(t.isFalling /\ t.fallAngle < -45000)

\* the shot point (sx, sy) lies on the projected disc of target t
OnDisc(t, sx, sy, lk) ==
    LET pos == WorldToScreen(t.worldX, t.worldY, t.distance, lk)
        radius == HitRadius(t, pos)
        dx == sx - pos.x
        dy == sy - pos.y
    IN  dx * dx + dy * dy <= radius * radius

\* C2: a fire event never reports a hit on a target that is not
\* hit-testable, that is a target with isActive = false or a target falling
\* with fallAngle below -45 degrees, whatever the shot point; and castRay
\* never collects the mesh of such a target.
C2_HitOnlyOnHitTestable ==
    [][/\ (ev'.op = "fire" /\ ev'.allowed /\ ev'.hit)
            => HitTestable(targets[ev'.target])
       /\ \A i \in CastRayMeshes(targets') : HitTestable(targets'[i])]_vars

\* an accepted shot whose shot point lies on the disc of a glowing, not yet
\* active peek target, reported as a miss
C2_Witness ==
    /\ ev.op = "fire" /\ ev.allowed /\ ~ev.hit
    /\ \E i \in 1..Len(targets) :
          /\ targets[i].peekActive /\ targets[i].isGlowing /\ ~targets[i].isActive
          /\ OnDisc(targets[i], ev.sx, ev.sy, look)

\* C3: no double scoring: between the moment a target is upright and its
\* next reset or replacement at most one accepted fire event increments
\* stats.hits for that target.
C3_NoDoubleScoring == \A i \in 1..Len(hist.scored) : hist.scored[i] <= 1

\* C7: a fire input less than FIRE_RATE_MS after the last accepted shot
\* changes no weapon state, no target state and no session statistic, and
\* any two accepted shots are at least FIRE_RATE_MS apart.
C7_FireInsideCooldownIgnored ==
    [][(ev'.op = "fire" /\ hist.lastShot >= 0)
          => /\ now' - hist.lastShot < FIRE_RATE_MS
                  => weapon' = weapon /\ targets' = targets /\ stats' = stats
             /\ ev'.allowed => now' - hist.lastShot >= FIRE_RATE_MS]_vars

\* a fire input 100 ms or less after an accepted shot, rejected
C7_Witness ==
    /\ ev.op = "fire" /\ ~ev.allowed
    /\ hist.lastShot >= 0
    /\ now > hist.lastShot
    /\ now - hist.lastShot < FIRE_RATE_MS

\* C14: in the timed modes other than flick a knocked-down target is reset
\* only after it has been fallen past -88 degrees for longer than
\* RESET_DELAY: at the tick of its reset more than RESET_DELAY of tick time
\* has passed since its fallAngle first reached -88 degrees.
C14_ResetAfterDelayOnGround ==
    (ev.op = "respawn" /\ game.preset # "flick" /\ game.timerActive)
        => ev.fallenFor > RESET_DELAY

(***************************************************************************)
(* SpecPeek: the peek drill as startMode('peek') creates it, ticked frame  *)
(* after frame; a target may be reset once.                                *)
(***************************************************************************)
\* the clock of SpecPeek stops at MaxPeekClock quanta of TimeStep
MaxPeekClock == 52

PeekClockEnd == MaxPeekClock * TimeStep

\* calls of Target.reset() in SpecPeek
MaxPeekResets == 1

\* REST_S + the rise from HIDDEN_Y to 0 at RISE_SPEED + GLOW_MS, milliseconds
PeekCycleMs == REST_S + (0 - HIDDEN_Y) \div RISE_SPEED + GLOW_MS

InitPeek ==
    /\ now = 0
    /\ weapon = NewWeapon
    /\ targets \in {CreateTargets("peek", d) : d \in TargetDraws("peek")}
    /\ look = Look0
    /\ stats = BlankStats
    /\ calls = <<>>
    /\ ev = NoEv
    /\ game = [NewGame EXCEPT !.mode = "peek", !.lastMode = "peek",
                              !.timerActive = TRUE,
                              !.remaining = Durations("peek")]
    /\ input = NewInput
    /\ hist = [NoHist EXCEPT !.ticked = ZeroScores(targets),
                             !.scored = ZeroScores(targets)]

\* a frame: every target is updated with dt = min(e, 100 ms)
PTick ==
    \E e \in GameGaps :
        /\ now + e <= PeekClockEnd
        /\ now' = now + e
        /\ targets' = [i \in 1..Len(targets) |->
                          TargetUpdate(targets[i], ClampDt(e), now')]
        /\ hist' = [hist EXCEPT !.ticked =
                      [i \in 1..Len(targets) |-> @[i] + ClampDt(e)]]
        /\ game' = [game EXCEPT !.lastFrameTime = now',
                                !.remaining = @ - ClampDt(e)]
        /\ ev' = [NoEv EXCEPT !.op = "update"]
        /\ UNCHANGED <<weapon, look, stats, input, calls>>

\* Target.reset() on one target
PReset ==
    \E i \in 1..Len(targets) :
        /\ hist.resets < MaxPeekResets
        /\ targets' = [targets EXCEPT ![i] = TargetReset(@)]
        /\ hist' = [hist EXCEPT !.ticked = [@ EXCEPT ![i] = 0],
                                !.resets = @ + 1]
        /\ ev' = [NoEv EXCEPT !.op = "reset", !.target = i]
        /\ UNCHANGED <<now, weapon, look, stats, game, input, calls>>

NextPeek == PTick \/ PReset

SpecPeek == InitPeek /\ [][NextPeek]_vars

\* C11: a peek target that starts in the hidden phase, as created when peek
\* mode starts or after reset, has isActive = false at every moment before
\* REST_S + rise time + GLOW_MS of ticking has elapsed, and once that time
\* has elapsed it is active with reaction.activeAt non-zero.
C11_PeekActivationTime ==
    \A i \in 1..Len(targets) :
        targets[i].peekActive =>
            /\ hist.ticked[i] < PeekCycleMs => ~targets[i].isActive
            /\ hist.ticked[i] = PeekCycleMs =>
                  targets[i].isActive /\ targets[i].activeAt > 0

(***************************************************************************)
(* SpecFlick: the game with the flick preset: startPreset('flick'),        *)
(* frames, mouse input and the fire-rate timeout.                          *)
(***************************************************************************)
\* the camera look at a flick target at x = 0, distance 0.5
AimFlick == [x |-> 0, y |-> -780]

FlickLooks == {Look0, AimFlick}

FlickMoves == {[mx |-> 0, my |-> k] : k \in {-130, 130}}

StartFlick == StartPresetWith({"flick"})

FlickMouseMove == MouseMoveWith(FlickMoves, FlickLooks)

NextFlick ==
    \/ StartFlick
    \/ Frame
    \/ PointerLockChange
    \/ FlickMouseMove
    \/ FireInput
    \/ CooldownTimeout

SpecFlick == Init /\ [][NextFlick]_vars

\* C12: in the flick preset the fallen target is replaced only after
\* spawnDelayS of accumulated tick time has elapsed since its fallAngle
\* reached -88 degrees; no replacement happens earlier.
C12_FlickRespawnAfterDelay ==
    (ev.op = "respawn" /\ game.preset = "flick")
        => ev.fallenFor >= SPAWN_DELAY_S

\* C13: in the flick preset the target set holds exactly one target in every
\* state, and each respawn replaces the fallen target by one new upright,
\* hit-testable target whose distance is in the distances pool.
C13_FlickSingleTarget ==
    [][/\ game'.preset = "flick" =>
             /\ Len(targets') = 1
             /\ targets'[1].distance \in FlickDistances
       /\ (ev'.op = "respawn" /\ game.preset = "flick") =>
             /\ targets[1].isFalling
             /\ ~targets'[1].isFalling /\ targets'[1].fallAngle = 0
             /\ ~targets'[1].isHit
             /\ HitTestable(targets'[1])]_vars

\* a flick target has just been respawned
C13_Witness ==
    /\ ev.op = "respawn" /\ game.preset = "flick"
    /\ Len(targets) = 1 /\ ~targets[1].isFalling

(***************************************************************************)
(* SpecSession: the game with rounds started from the panels under known   *)
(* and unknown keys and restarted by restartLastMode, between frames and   *)
(* shots fired at the spot the camera looks at.                            *)
(***************************************************************************)
\* the keys of durations and of typeMap in startMode
KnownModes == {"timed", "strafe", "peek", "micro", "freeplay"}

\* keys given to startMode: two known ones and 'static', which is no key
\* of durations or of typeMap
SessionModes == {"timed", "micro", "static"}

\* keys given to startPreset: two presets and a key that is no preset
SessionPresets == {"flick", "tracking", "bogus"}

SessionStartMode == StartModeWith(SessionModes)

\* the frames of a session run until this reading of the clock, in
\* TimeSteps
MaxSessionClock == 12

SessionFrame == FrameUntil(MaxSessionClock * TimeStep)

SessionStartPreset == StartPresetWith(SessionPresets)

NextSession ==
    \/ SessionStartMode
    \/ SessionStartPreset
    \/ RestartLastMode
    \/ SessionFrame
    \/ PointerLockChange
    \/ FireInput
    \/ CooldownTimeout

SpecSession == Init /\ [][NextSession]_vars

\* the target set _createTargets('static') builds
StaticLayout(ts) == \E d \in TargetDraws("static") : ts = CreateTargets("static", d)

\* C15: startMode with a key outside the known modes and startPreset with
\* a key outside the known presets both leave the target set equal to the
\* static drill layout.
C15_UnknownKeyGivesStaticLayout ==
    /\ (ev.op = "startMode" /\ ev.key \notin KnownModes) => StaticLayout(targets)
    /\ (ev.op = "startPreset" /\ ev.key \notin PresetNames) => StaticLayout(targets)

\* a call of startMode or startPreset, direct or through restartLastMode,
\* that went through has just returned
Started == ev.op \in {"startMode", "startPreset", "restart"} /\ ev.allowed

\* C16: immediately after every successful startMode or startPreset the
\* session statistics are blank (shots 0, hits 0, no reaction times,
\* avgReaction 0, consistency 0, bestReaction unset) and the weapon is
\* reset (recoil 0, spread SPREAD.BASE, multiplier 1, no rapid-fire
\* timestamps), whatever the state before the call.
C16_StartResetsWeaponAndStats ==
    Started =>
        /\ stats.shots = 0
        /\ stats.hits = 0
        /\ stats.reactionTimes = <<>>
        /\ stats.avgReaction = Rat(0, 1)
        /\ stats.consistencySq = Rat(0, 1)
        /\ stats.bestReaction = Infinity
        /\ weapon.recoil = 0
        /\ weapon.spread = SPREAD_BASE * 100
        /\ weapon.multiplier = 100
        /\ weapon.recentShots = <<>>

\* a preset started at the very instant of a shot, the weapon still kicked
C16_Witness ==
    /\ ev.op = "startPreset"
    /\ ev.allowed
    /\ now > 0
    /\ hist.lastShot = now

\* the types of a target set, in order
Kinds(ts) == [i \in 1..Len(ts) |-> ts[i].type]

\* the timer a round of the given mode starts with
ModeDuration(mode) ==
    CASE mode = "preset-flick" -> PresetTimer("flick")
      [] mode = "preset-tracking" -> PresetTimer("tracking")
      [] mode = "preset-micro-adjust" -> PresetTimer("micro-adjust")
      [] OTHER -> Durations(mode)

\* the mode, the timer and the kinds of targets that repeating the call c
\* gives in a game g with targets ts; a startPreset with an unknown key
\* and no call at all leave the round as it is
AfterRepeating(c, g, ts) ==
    IF c.fn = "startMode"
    THEN [mode |-> c.key, timer |-> Durations(c.key),
          kinds |-> Kinds(CreateTargets(TypeMap(c.key),
                        CHOOSE d \in TargetDraws(TypeMap(c.key)) : TRUE))]
    ELSE IF c.fn = "startPreset" /\ c.key \in PresetNames
    THEN [mode |-> PresetMode(c.key), timer |-> PresetTimer(c.key),
          kinds |-> Kinds(SpawnPreset(c.key,
                        CHOOSE d \in PresetDraws(c.key) : TRUE))]
    ELSE [mode |-> g.mode, timer |-> ModeDuration(g.mode), kinds |-> Kinds(ts)]

RoundModes == {"timed", "peek", "freeplay"}

\* the frames left on the timer where the round is picked up
RoundFramesLeft == 4

\* the clock runs this many TimeSteps from where the round is picked up
MaxRoundClock == 14

\* the frames a round of the given mode is left alone for
IdleCount(mode) ==
    Max(0, Durations(mode) \div (2 * TimeStep) - RoundFramesLeft)

RoundClockEnd(mode) == IdleCount(mode) * 2 * TimeStep + MaxRoundClock * TimeStep

\* the game after the constructor and startMode(mode) at clock 0
InitRound ==
    \E mode \in RoundModes : \E draw \in TargetDraws(TypeMap(mode)) :
        /\ now = 0
        /\ weapon = WeaponReset(NewWeapon)
        /\ targets = CreateTargets(TypeMap(mode), draw)
        /\ look = Look0
        /\ stats = BlankStats
        /\ game = [NewGame EXCEPT !.mode = mode, !.lastMode = mode,
                                  !.timerActive = Durations(mode) > 0,
                                  !.remaining = Durations(mode)]
        /\ input = NewInput
        /\ calls = <<>>
        /\ hist = [NoHist EXCEPT !.scored = ZeroScores(targets),
                                 !.fallenFor = ZeroScores(targets),
                                 !.lastCall = [fn |-> "startMode", key |-> mode]]
        /\ ev = NoEv

\* the round is untimed or has at most RoundFramesLeft frames left
PickedUp ==
    ~game.timerActive \/ game.remaining <= RoundFramesLeft * 2 * TimeStep

\* a frame of the round left alone
IdleFrame == ~PickedUp /\ FrameWith({2 * TimeStep}, RoundClockEnd(game.mode))

RoundFrame == PickedUp /\ FrameUntil(RoundClockEnd(game.mode))

RoundLooks == {Look0, AimStatic}

RoundMoves == {[mx |-> 0, my |-> k] : k \in {-185, 185}}

RoundPointerLockChange == PickedUp /\ PointerLockChange

RoundMouseMove == PickedUp /\ MouseMoveWith(RoundMoves, RoundLooks)

RoundFireInput == PickedUp /\ FireInput

RoundRestart == PickedUp /\ RestartLastMode

NextRound ==
    \/ IdleFrame
    \/ RoundFrame
    \/ RoundPointerLockChange
    \/ RoundMouseMove
    \/ RoundFireInput
    \/ CooldownTimeout
    \/ RoundRestart

SpecRound == InitRound /\ [][NextRound]_vars

\* the round is over: its timer has run out, its session is saved and no
\* round has been started since
Ended == ~game.timerActive /\ game.saved # <<>>

\* the state of a target the round's end is to freeze
Frozen(t) ==
    [worldX |-> t.worldX, worldY |-> t.worldY, phase |-> t.phase,
     isFalling |-> t.isFalling, fallAngle |-> t.fallAngle,
     isActive |-> t.isActive]

\* C18: from the tick on which the timer reaches 0 until a new round is
\* started, on every later tick timer.remaining stays 0, no target
\* changes its position, peek phase, fall state or isActive, and no target
\* is respawned.
C18_EndFreezesTimerAndTargets ==
    [][(Ended /\ now' > now) =>
          /\ game'.remaining = 0
          /\ Len(targets') = Len(targets)
          /\ \A i \in 1..Len(targets) : Frozen(targets'[i]) = Frozen(targets[i])]_vars

\* C19: once the round's statistics are saved, no later event changes
\* shots, hits or the reaction statistics until the next start resets them.
C19_StatsFinalAfterEnd ==
    [][(Ended /\ Ended') => stats' = stats]_vars

\* C20: on a tick with the timer active remaining goes down by dt; the
\* round ends on the first tick that brings it to 0 or below, and on that
\* tick, and on no other step, one session is saved, with the mode, the
\* shots, the hits and accuracy = hits / shots * 100 (0 without shots);
\* with the timer inactive, after the end of a round or in an untimed
\* round, no tick ends or saves anything.
C20_RoundLifecycle ==
    [][IF now' > now /\ game.timerActive
       THEN LET left == game.remaining - ClampDt(now' - game.lastFrameTime)
            IN  IF left > 0
                THEN /\ game'.timerActive
                     /\ game'.remaining = left
                     /\ game'.saved = game.saved
                ELSE /\ ~game'.timerActive
                     /\ game'.remaining = 0
                     /\ Len(game'.saved) = Len(game.saved) + 1
                     /\ LET session == game'.saved[Len(game'.saved)]
                        IN  /\ session.mode = game.mode
                            /\ session.shots = stats.shots
                            /\ session.hits = stats.hits
                            /\ session.accuracy =
                                   IF stats.shots = 0 THEN Rat(0, 1)
                                   ELSE Rat(stats.hits * 100, stats.shots)
                     /\ SubSeq(game'.saved, 1, Len(game.saved)) = game.saved
       ELSE /\ game'.saved = game.saved
            /\ now' > now => ~game'.timerActive /\ game'.remaining = game.remaining]_vars

\* a round that has ended and was saved after a shot that hit
C20_Witness ==
    /\ Ended
    /\ Len(game.saved) = 1
    /\ game.saved[1].hits = 1
    /\ game.remaining = 0

\* C21: a hit on a target spawned by the flick preset yields a non-zero
\* reactionMs, so that hits in the flick preset add samples to
\* reactionTimes.
C21_FlickHitHasReaction ==
    (ev.op = "fire" /\ ev.hit /\ ~ev.wasFalling /\ game.preset = "flick")
        => /\ ev.reaction > 0
           /\ stats.reactionTimes # <<>>

(***************************************************************************)
(* Further claims on one target (SpecTarget)                               *)
(***************************************************************************)
\* the X the targets of SpecTarget are spawned at
SpawnXs == {t.worldX : t \in InitialTargets}

\* C22: after Target.reset(), from any state, isHit and isFalling are false,
\* fallAngle, fallVel, fallTimer, impactFlash and activeAt are 0 and
\* isGlowing is false; a strafe target is back at its spawn X; a peek target
\* is in phase hidden at HIDDEN_Y, inactive, with zeroed phase timers; any
\* other target is hit-testable.
C22_ResetClearsState ==
    [][ev'.op = "reset" =>
         LET t == targets'[1]
         IN  /\ ~t.isHit
             /\ ~t.isFalling
             /\ t.fallAngle = 0
             /\ t.fallVel = 0
             /\ t.fallTimer = 0
             /\ t.impactFlash = 0
             /\ t.activeAt = 0
             /\ ~t.isGlowing
             /\ t.strafeActive => t.worldX = t.originX /\ t.worldX \in SpawnXs
             /\ t.peekActive => /\ t.phase = "hidden"
                                /\ t.worldY = HIDDEN_Y
                                /\ ~t.isActive
                                /\ t.hiddenFor = 0
                                /\ t.upFor = 0
             /\ ~t.peekActive => t.isActive /\ t.worldY = targets[1].worldY]_vars

\* a strafe target reset while it was falling, once the clock has run
C22_Witness ==
    /\ ev.op = "reset"
    /\ ev.wasFalling
    /\ targets[1].strafeActive
    /\ now >= 4 * TimeStep

(***************************************************************************)
(* Further claims on the weapon (SpecWeapon)                               *)
(***************************************************************************)
\* C23: after any update() whose pruning leaves 2 or fewer fire timestamps
\* recoil.multiplier is 1, and in every state reached by fire(), update()
\* or reset() a multiplier above 1 comes with more than 2 retained
\* timestamps.
C23_MultiplierBackToOne ==
    /\ (ev.op = "update" /\ Len(weapon.recentShots) <= 2) => weapon.multiplier = 100
    /\ weapon.multiplier > 100 => Len(weapon.recentShots) > 2

\* an update that pruned three or more timestamps down to two or fewer
C23_Witness ==
    /\ ev.op = "update"
    /\ ev.inWindow >= 3
    /\ Len(weapon.recentShots) <= 2
    /\ weapon.multiplier = 100

(***************************************************************************)
(* SpecCycle: one target of a drill over many frames of a display that     *)
(* draws at a steady rate.  Each frame passes dt = min(e, 100 ms) to       *)
(* update for the wall-clock gap e between frames; the target is hit while *)
(* it is hit-testable and reset once the game's reset test on a fallen     *)
(* target passes.  SpecCycleLive adds that frames keep coming.             *)
(***************************************************************************)
\* a behaviour of SpecCycle has at most MaxCycleFrames frames
MaxCycleFrames == 45

\* the number of frames drawn so far
CycleFrame == now \div hist.period

\* the wall-clock gap between frames, one per behaviour: 0.05 s, which
\* update receives whole, and 0.2 s, which Game._loop clamps to 0.1 s
CycleGaps == {TimeStep, 4 * TimeStep}

\* a peek, two strafe and a static target of the drill layouts
CycleTargets ==
    {NewTarget(0, 0, 65, "peek", 35, 1),
     NewTarget(6000, 0, 70, "strafe", 45, 1),
     NewTarget(-5000, 0, 30, "strafe", 25, -1),
     NewTarget(0, 0, 45, "static", 35, 1)}

InitCycle ==
    /\ now = 0
    /\ weapon = NewWeapon
    /\ targets \in {<<t>> : t \in CycleTargets}
    /\ look = Look0
    /\ stats = BlankStats
    /\ calls = <<>>
    /\ ev = NoEv
    /\ game = NewGame
    /\ input = NewInput
    /\ \E e \in CycleGaps :
         hist = [NoHist EXCEPT !.swingAt = <<0>>, !.period = e]

\* Target.update(dt, totalTime) in the frame at now + e; the swing angle is
\* computed anew unless the target is falling or is an inactive peek target
CTick ==
    \E e \in {hist.period} :
        LET t1 == TargetUpdate(targets[1], ClampDt(e), now + e)
        IN  /\ CycleFrame < MaxCycleFrames
            /\ now' = now + e
            /\ targets' = <<t1>>
            /\ hist' = [hist EXCEPT !.swingAt =
                          IF ~targets[1].isFalling /\ (t1.isActive \/ ~t1.peekActive)
                          THEN <<now + e>> ELSE @]
            /\ ev' = [NoEv EXCEPT !.op = "update"]
            /\ UNCHANGED <<weapon, look, stats, calls, game, input>>

\* Target.onHit(isCenterHit) on a target that passes the gates of checkHit
COnHit ==
    \E c \in BOOLEAN :
        /\ ~targets[1].isFalling
        /\ ~(targets[1].peekActive /\ ~targets[1].isActive)
        /\ targets' = <<TargetOnHit(targets[1], c)>>
        /\ ev' = [NoEv EXCEPT !.op = "onHit", !.isCenterHit = c]
        /\ UNCHANGED <<now, weapon, look, stats, calls, game, input, hist>>

\* Target.reset() as Game._handleRespawns calls it: on a target fallen
\* past -88 degrees whose fallTimer exceeds RESET_DELAY
CReset ==
    /\ targets[1].isFalling
    /\ targets[1].fallAngle <= -88000
    /\ targets[1].fallTimer > RESET_DELAY
    /\ targets' = <<TargetReset(targets[1])>>
    /\ ev' = [NoEv EXCEPT !.op = "reset", !.wasFalling = TRUE]
    /\ UNCHANGED <<now, weapon, look, stats, calls, game, input, hist>>

NextCycle == CTick \/ COnHit \/ CReset

SpecCycle == InitCycle /\ [][NextCycle]_vars

SpecCycleLive == SpecCycle /\ WF_vars(CTick)

(***************************************************************************)
(* Claims on the cycle of one target                                       *)
(***************************************************************************)
\* the phase that follows phase p of a peek target
PeekSucc(p) ==
    CASE p = "hidden" -> "rising"
      [] p = "rising" -> "exposed"
      [] p = "exposed" -> "dropping"
      [] OTHER -> "hidden"

\* the frames the longest phase takes: EXPOSE_S in ticks of dt
LongestPhaseFrames == EXPOSE_S \div ClampDt(hist.period)

\* a peek target that is not falling and is in phase p, with the frames of
\* the longest phase still to come
InPhase(p) ==
    /\ targets[1].peekActive
    /\ ~targets[1].isFalling
    /\ targets[1].phase = p
    /\ CycleFrame + LongestPhaseFrames <= MaxCycleFrames

\* C24: the phase of a peek target changes only along hidden -> rising ->
\* exposed -> dropping -> hidden: an update leaves the phase alone or moves
\* it to the next one, a hit leaves it alone, a reset makes it hidden; and
\* while frames keep coming a peek target in any phase reaches the next
\* phase unless it is knocked down first
C24_PeekCycle ==
    /\ [][targets[1].peekActive =>
            /\ ev'.op = "update" =>
                   targets'[1].phase \in {targets[1].phase,
                                          PeekSucc(targets[1].phase)}
            /\ ev'.op = "onHit" => targets'[1].phase = targets[1].phase
            /\ ev'.op = "reset" => targets'[1].phase = "hidden"]_vars
    /\ \A p \in {"hidden", "rising", "exposed", "dropping"} :
          InPhase(p) ~> (targets[1].phase = PeekSucc(p) \/ targets[1].isFalling)

\* a peek target that was never hit is hidden again after one whole cycle:
\* with dt = 0.1 s, 15 frames hidden, 4 rising, 20 exposed and 4 dropping
C24_Witness ==
    /\ targets[1].peekActive
    /\ ev.op = "update"
    /\ targets[1].phase = "hidden"
    /\ targets[1].hiddenFor = 0
    /\ CycleFrame = 43

\* C25: in every state, between frames included, a peek target in phase
\* dropping has isActive = false and does not pass the gates of checkHit
C25_DroppingInactive ==
    (targets[1].peekActive /\ targets[1].phase = "dropping")
        => /\ ~targets[1].isActive
           /\ ~HitTestable(targets[1])

\* C26: an update of a falling target never raises fallAngle and never
\* lowers fallVel, fallAngle is always within [-90, 0] degrees, a falling
\* target at -90 degrees stays there until it is reset, and while frames
\* keep coming a falling target reaches -90 degrees unless it is reset first
C26_FallMonotonic ==
    /\ [](targets[1].fallAngle \in -90000..0)
    /\ [][(targets[1].isFalling /\ ev'.op = "update")
             => /\ targets'[1].fallAngle <= targets[1].fallAngle
                /\ targets'[1].fallVel >= targets[1].fallVel]_vars
    /\ [][(targets[1].isFalling /\ targets[1].fallAngle = -90000)
             => (targets'[1].fallAngle = -90000 \/ ev'.op = "reset")]_vars
    /\ (targets[1].isFalling
        /\ CycleFrame + LongestPhaseFrames <= MaxCycleFrames)
           ~> (targets[1].fallAngle = -90000 \/ ~targets[1].isFalling)

\* a knocked-down target that lies flat and has been updated there again
C26_Witness ==
    /\ ev.op = "update"
    /\ targets[1].isFalling
    /\ targets[1].fallAngle = -90000
    /\ targets[1].fallTimer >= 2 * RESET_DELAY

\* the tick dt of the behaviour: the frame gap as Game._loop clamps it
CycleDt == ClampDt(hist.period)

\* C27: a strafe target is always within [STRAFE_BOUNDS.MIN, MAX] and
\* isActive; an update of one that is not falling moves it by speed * dir *
\* dt, stopped at the bounds, and leaves dir alone except that dir becomes
\* -1 exactly when the target is put on MAX and 1 exactly when on MIN
C27_StrafeBounded ==
    /\ [](targets[1].strafeActive
            => /\ targets[1].worldX \in STRAFE_MIN..STRAFE_MAX
               /\ targets[1].dir \in {-1, 1}
               /\ targets[1].isActive)
    /\ [][(targets[1].strafeActive /\ ~targets[1].isFalling
           /\ ev'.op = "update")
             => LET t == targets[1]
                    x1 == t.worldX + (t.speed * t.dir * CycleDt) \div 10
                    u == targets'[1]
                IN  /\ u.worldX = Max(STRAFE_MIN, Min(STRAFE_MAX, x1))
                    /\ u.speed = t.speed
                    /\ u.worldX = STRAFE_MAX => u.dir = -1
                    /\ u.worldX = STRAFE_MIN => u.dir = 1
                    /\ u.worldX \notin {STRAFE_MIN, STRAFE_MAX}
                          => u.dir = t.dir]_vars

\* the strafe target that set out to the right from x = 0.6 has turned
\* round at MAX and has just been put on MIN
C27_Witness ==
    /\ ev.op = "update"
    /\ targets[1].strafeActive
    /\ targets[1].originX = 6000
    /\ targets[1].worldX = STRAFE_MIN
    /\ targets[1].dir = 1

\* C28: the glow of a peek target ends only after GLOW_MS of accumulated
\* tick dt in the exposed phase: a target that is exposed and active has
\* spent at least GLOW_MS of dt exposed
C28_GlowInTickTime ==
    (targets[1].peekActive /\ targets[1].phase = "exposed"
     /\ targets[1].isActive)
        => targets[1].upFor >= GLOW_MS

(***************************************************************************)
(* Claims on respawns outside a round                                      *)
(***************************************************************************)
\* C29: while the timer is inactive and the flick preset is not selected no
\* target is reset: across every step other than a call of startMode,
\* startPreset or restartLastMode each falling target stays falling
C29_NoResetWithoutTimer ==
    [][(~game.timerActive /\ game.preset # "flick"
        /\ ev'.op \notin {"startMode", "startPreset", "restart"})
          => /\ Len(targets') = Len(targets)
             /\ \A i \in 1..Len(targets) :
                   targets[i].isFalling
                      => /\ targets'[i].isFalling
                         /\ targets'[i].isHit]_vars

\* in free play a target lies flat with a fallTimer beyond RESET_DELAY: the
\* frame that took the fallTimer there passed it over
C29_Witness ==
    /\ ~game.timerActive
    /\ game.preset = "none"
    /\ game.mode = "freeplay"
    /\ \E i \in 1..Len(targets) :
          /\ targets[i].isFalling
          /\ targets[i].fallAngle <= -88000
          /\ targets[i].fallTimer > RESET_DELAY

\* C30: an update of a falling target changes nothing but fallTimer,
\* fallVel, fallAngle and impactFlash, and does not compute the swing angle
\* anew; no step but a reset changes isActive or isHit of a falling target;
\* so a peek target, which is hit only while active, is active all through
\* its fall
C30_FallFreezes ==
    /\ [][(targets[1].isFalling /\ ev'.op = "update")
             => /\ targets'[1] =
                      [targets[1] EXCEPT !.fallTimer = targets'[1].fallTimer,
                                         !.fallVel = targets'[1].fallVel,
                                         !.fallAngle = targets'[1].fallAngle,
                                         !.impactFlash = targets'[1].impactFlash]
                /\ hist'.swingAt = hist.swingAt]_vars
    /\ [][(targets[1].isFalling /\ ev'.op # "reset")
             => /\ targets'[1].isFalling
                /\ targets'[1].isActive = targets[1].isActive
                /\ targets'[1].isHit]_vars
    /\ []((targets[1].peekActive /\ targets[1].isFalling)
             => targets[1].isActive)

\* a peek target knocked down while exposed lies flat, still active, after
\* the updates of its whole fall
C30_Witness ==
    /\ ev.op = "update"
    /\ targets[1].peekActive
    /\ targets[1].phase = "exposed"
    /\ targets[1].isFalling
    /\ targets[1].isActive
    /\ targets[1].fallAngle = -90000
    /\ targets[1].fallTimer > RESET_DELAY

====
